---- MODULE Spec2Model ----
(***************************************************************************)
(* Guardian Agent (agent.py): the checkpoint file .guardian_state.json,    *)
(* get_guardian_state / save_guardian_state, run_agent with its validation *)
(* shim, and the script entry point, run by one process (Spec) or by two   *)
(* processes that share the checkpoint file (SpecRace).                    *)
(***************************************************************************)
EXTENDS Integers, Sequences, FiniteSets, TLC

VARIABLES
    file,           \* content of .guardian_state.json on disk
    initial,        \* history: the file as the latest execution of a lone process found it
    stored,         \* history: value of the latest complete json.dump still on disk, or Absent
    lastWriter,     \* history: process whose json.dump reached the disk last (0: none)
    save_arg,       \* history: argument of the latest save_guardian_state call, or Absent
    procs,          \* the processes that run the script
    pc,             \* per process: position in the script
    current_state,  \* per process: what get_guardian_state returned (line 102)
    run_state,      \* per process: run.state
    returned_state, \* history, per process: the state portia.run_plan returned
    waits,          \* per process: number of wait_for_ready calls
    raw_output,     \* per process: run.outputs.final_output.value (local of run_agent)
    outputs_attrs,  \* per process: scanned_count / alerted_count attributes of run.outputs
    out,            \* per process: the GuardianRunOutput run_agent returned
    exc,            \* per process: the exception that ended run_agent or the import
    save_status,    \* per process: how save_guardian_state went in this execution
    verified,       \* per process: outcome of the verification step (lines 269-278)
    log,            \* per process: tags of the diagnostic lines printed
    exit_code       \* per process: process exit status once it has ended

vars == <<file, initial, stored, lastWriter, save_arg, procs, pc, current_state, run_state,
          returned_state, waits, raw_output, outputs_attrs, out, exc, save_status, verified, log, exit_code>>

locals == <<current_state, run_state, returned_state, waits, raw_output, outputs_attrs, out, exc,
            save_status, verified, log, exit_code>>

(***************************************************************************)
(* Bounds                                                                  *)
(***************************************************************************)
MaxCount == 2   \* message counts range over 0..MaxCount
MaxTs == 2      \* Slack timestamps range over "1".."MaxTs"

AllProcs == {1, 2}

(***************************************************************************)
(* Python / JSON values: [t, s, n] with t the type tag.                    *)
(***************************************************************************)
PStr(s) == [t |-> "str", s |-> s, n |-> 0]
PInt(n) == [t |-> "int", s |-> "", n |-> n]
PNone == [t |-> "none", s |-> "", n |-> 0]
PFloat == [t |-> "float", s |-> "", n |-> 0]      \* a float with a fractional part (2.5)
PObject == [t |-> "object", s |-> "", n |-> 0]    \* an instance that is neither dict nor scalar
Absent == [t |-> "absent", s |-> "", n |-> 0]    \* no value: key or attribute missing

\* decimal rendering of 0..9, and int(s) / float(s) on those renderings
DecStr == <<"0", "1", "2", "3", "4", "5", "6", "7", "8", "9">>
IsNumeric(s) == \E i \in 1..Len(DecStr) : DecStr[i] = s
ParseInt(s) == (CHOOSE i \in 1..Len(DecStr) : DecStr[i] = s) - 1

\* Python truthiness (bool(v)) as used by `if v:` and `v or 0`
Truthy(v) ==
    CASE v.t = "str" -> v.s # ""
      [] v.t = "int" -> v.n # 0
      [] v.t = "none" -> FALSE
      [] v.t = "absent" -> FALSE
      [] OTHER -> TRUE

Timestamps == {DecStr[i + 1] : i \in 1..MaxTs}
Counts == 0..MaxCount

(***************************************************************************)
(* The checkpoint file.  form: what the bytes are; last_ts: the value      *)
(* stored under "last_ts" when the text is a JSON object (Absent: no such  *)
(* key).                                                                   *)
(***************************************************************************)
Text(form, v) == [form |-> form, last_ts |-> v]
Missing == Text("missing", Absent)       \* os.path.exists is false
EmptyFile == Text("empty", Absent)       \* zero bytes
Blank == Text("blank", Absent)           \* whitespace only
Garbage == Text("garbage", Absent)       \* not JSON
NonObject == Text("nonobject", Absent)   \* valid JSON, not an object: [], 5, "x", null
ObjectText(v) == Text("object", v)       \* {"last_ts": v}, or {} when v = Absent

StoredValues == {PStr(s) : s \in Timestamps \cup {""}} \cup {PNone, PInt(1), Absent}
FileStates == {Missing, EmptyFile, Blank, Garbage, NonObject}
                 \cup {ObjectText(v) : v \in StoredValues}

(***************************************************************************)
(* State store (lines 36-70)                                               *)
(***************************************************************************)
\* json.loads / json.load on the file's text: raises on text that is not JSON
JsonLoads(text) ==
    [ok |-> text.form \in {"nonobject", "object"},
     isdict |-> text.form = "object",
     last_ts |-> text.last_ts]

\* state_data.get("last_ts", default): AttributeError unless state_data is a dict
DictGet(data, default) ==
    [ok |-> data.isdict,
     value |-> IF data.last_ts = Absent THEN default ELSE data.last_ts]

\* get_guardian_state(): the value returned and the line printed. read_fault:
\* open() or f.read() raises. Every exception is caught by the except clause of
\* line 56, which returns "".
Returned(value, printed) == [value |-> value, printed |-> printed]

get_guardian_state(f, read_fault) ==
    IF f.form = "missing" THEN Returned(PStr(""), "no_file")
    ELSE IF read_fault THEN Returned(PStr(""), "read_error")
    ELSE IF f.form \in {"empty", "blank"} THEN Returned(PStr(""), "empty_file")
    ELSE LET state_data == JsonLoads(f)
             got == DictGet(state_data, PStr(""))
         IN  IF ~state_data.ok THEN Returned(PStr(""), "read_error")
             ELSE IF ~got.ok THEN Returned(PStr(""), "read_error")
             ELSE IF Truthy(got.value) THEN Returned(got.value, "found_last_ts")
             ELSE Returned(got.value, "no_last_ts_in_file")

\* json_dump with a fault: the timestamp is written under another key
json_dump_other_key(last_ts) == ObjectText(Absent)

\* json.dump({"last_ts": last_ts}, f, indent=2): the text written
json_dump(last_ts) == ObjectText(last_ts)

(***************************************************************************)
(* Validation shim of run_agent (lines 213-241)                            *)
(***************************************************************************)
Dict(sc, ac, ts, st) ==
    [scanned_count |-> sc, alerted_count |-> ac, last_ts |-> ts, safety_status |-> st]

\* run.outputs.final_output.value: a dict (d) or some other value (value)
Raw(isdict, value, d) == [isdict |-> isdict, value |-> value, d |-> d]
NoDict == Dict(Absent, Absent, Absent, Absent)
NoRaw == Raw(FALSE, Absent, NoDict)

\* scanned_count / alerted_count attributes of run.outputs (Absent: no attribute)
Attrs(sc, ac) == [scanned_count |-> sc, alerted_count |-> ac]

\* setdefault with a fault: the default replaces a value that is present
setdefault_overwrites(d, key, value) == [d EXCEPT ![key] = value]

\* dict.setdefault(key, value)
setdefault(d, key, value) ==
    IF d[key] = Absent THEN [d EXCEPT ![key] = value] ELSE d

\* pydantic validation of one field, lax mode: [ok, value]
ValidateInt(v) ==
    CASE v.t = "int" -> [ok |-> TRUE, value |-> v]
      [] v.t = "str" /\ IsNumeric(v.s) -> [ok |-> TRUE, value |-> PInt(ParseInt(v.s))]
      [] OTHER -> [ok |-> FALSE, value |-> Absent]

ValidateOptionalStr(v) ==
    CASE v.t \in {"str", "none"} -> [ok |-> TRUE, value |-> v]
      [] v.t = "absent" -> [ok |-> TRUE, value |-> PNone]
      [] OTHER -> [ok |-> FALSE, value |-> Absent]

ValidateStr(v) ==
    CASE v.t = "str" -> [ok |-> TRUE, value |-> v]
      [] v.t = "absent" -> [ok |-> TRUE, value |-> PStr("completed")]
      [] OTHER -> [ok |-> FALSE, value |-> Absent]

\* GuardianRunOutput.model_validate(d): ok = FALSE stands for ValidationError
model_validate(d) ==
    LET sc == ValidateInt(d.scanned_count)
        ac == ValidateInt(d.alerted_count)
        ts == ValidateOptionalStr(d.last_ts)
        st == ValidateStr(d.safety_status)
    IN  IF sc.ok /\ ac.ok /\ ts.ok /\ st.ok
        THEN [ok |-> TRUE, scanned_count |-> sc.value, alerted_count |-> ac.value,
              last_ts |-> ts.value, safety_status |-> st.value]
        ELSE [ok |-> FALSE, scanned_count |-> Absent, alerted_count |-> Absent,
              last_ts |-> Absent, safety_status |-> Absent]

NoOut == [ok |-> FALSE, scanned_count |-> Absent, alerted_count |-> Absent,
          last_ts |-> Absent, safety_status |-> Absent]

\* getattr(run.outputs, name, None) or 0
AttrOrZero(v) == IF Truthy(v) THEN v ELSE PInt(0)

\* Fallback with a fault: the counts of run.outputs are not looked at
Fallback_ignores_attrs(raw, attrs) ==
    IF ~raw.isdict
    THEN Dict(PInt(0), PInt(0), PNone, PStr("failed"))
    ELSE raw.d

\* lines 217-229: the dict the shim goes on with
Fallback(raw, attrs) ==
    IF ~raw.isdict
    THEN Dict(AttrOrZero(attrs.scanned_count), AttrOrZero(attrs.alerted_count),
              PNone, PStr("failed"))
    ELSE raw.d

\* lines 232-235
FillDefaults(d) ==
    setdefault(setdefault(setdefault(setdefault(d,
        "scanned_count", PInt(0)),
        "alerted_count", PInt(0)),
        "last_ts", PNone),
        "safety_status", PStr("failed"))

\* lines 214-241: the result run_agent returns, ok = FALSE when model_validate raises
ValidationShim(raw, attrs) ==
    LET result == model_validate(FillDefaults(Fallback(raw, attrs)))
    IN  IF result.ok THEN [result EXCEPT !.safety_status = PStr("completed")]
        ELSE result

(***************************************************************************)
(* Inputs from the outside: the external platform and the environment      *)
(***************************************************************************)
PlanRunStates == {"NOT_STARTED", "IN_PROGRESS", "NEED_CLARIFICATION",
                  "READY_TO_RESUME", "COMPLETE", "FAILED"}

CountValues == {PInt(n) : n \in Counts} \cup {PStr("2"), PStr("many"), PNone, PFloat, Absent}
TsValues == {PStr(s) : s \in Timestamps \cup {""}} \cup {PNone, PInt(1), Absent}
StatusValues == {PStr("completed"), PStr("failed"), PNone, Absent}
NonDictValues == {PStr("done"), PInt(1), PNone, PObject}
NoAttrs == Attrs(Absent, Absent)

\* every shape of final output, with the attributes run.outputs may carry
AnyOutputs ==
    {<<Raw(TRUE, Absent, Dict(sc, ac, ts, st)), NoAttrs>> :
        sc \in CountValues, ac \in CountValues, ts \in TsValues, st \in StatusValues}
    \cup {<<Raw(FALSE, v, NoDict), Attrs(sc, ac)>> :
        v \in NonDictValues, sc \in CountValues, ac \in CountValues}

\* outputs that follow the schema of the prompt (lines 185-190)
SchemaOutputs ==
    {<<Raw(TRUE, Absent, Dict(PInt(0), PInt(0), ts, PStr("completed"))), NoAttrs>> :
        ts \in {PStr(s) : s \in Timestamps} \cup {PNone}}

\* a lone process is checked against every output, two racing processes against
\* the outputs that follow the schema
Outputs(P) == IF Cardinality(P) = 1 THEN AnyOutputs ELSE SchemaOutputs

(***************************************************************************)
(* Initial state                                                           *)
(***************************************************************************)
InitLocals ==
    /\ current_state = [p \in AllProcs |-> Absent]
    /\ run_state = [p \in AllProcs |-> "NONE"]
    /\ returned_state = [p \in AllProcs |-> "NONE"]
    /\ waits = [p \in AllProcs |-> 0]
    /\ raw_output = [p \in AllProcs |-> NoRaw]
    /\ outputs_attrs = [p \in AllProcs |-> NoAttrs]
    /\ out = [p \in AllProcs |-> NoOut]
    /\ exc = [p \in AllProcs |-> "none"]
    /\ save_status = [p \in AllProcs |-> "none"]
    /\ verified = [p \in AllProcs |-> "none"]
    /\ log = [p \in AllProcs |-> {}]
    /\ exit_code = [p \in AllProcs |-> -1]

InitWith(P, files) ==
    /\ file \in files
    /\ initial = file
    /\ stored = Absent
    /\ lastWriter = 0
    /\ save_arg = Absent
    /\ procs = P
    /\ pc = [p \in AllProcs |-> IF p \in P THEN "import" ELSE "idle"]
    /\ InitLocals

\* a lone process finds the file in any state; two racing processes find it
\* missing or holding an earlier checkpoint
Init == InitWith({1}, FileStates)
InitRace == InitWith({1, 2}, {Missing} \cup {ObjectText(PStr(s)) : s \in Timestamps})

\* an exception: raise (with its type) and jump to the handler `to`
Raise(p, type, to) ==
    /\ exc' = [exc EXCEPT ![p] = type]
    /\ pc' = [pc EXCEPT ![p] = to]

Goto(p, to) == pc' = [pc EXCEPT ![p] = to]

(***************************************************************************)
(* Module level, lines 17-24                                               *)
(***************************************************************************)
\* the PORTIA_API_KEY check: the RuntimeError is raised outside any try, so the
\* interpreter prints the traceback and exits with status 1
CheckApiKey(p) ==
    /\ pc[p] = "import"
    /\ \E api_key \in BOOLEAN :
         IF api_key
         THEN /\ Goto(p, "run_agent")
              /\ UNCHANGED <<exc, log, exit_code>>
         ELSE /\ Raise(p, "RuntimeError", "done")
              /\ log' = [log EXCEPT ![p] = @ \cup {"traceback"}]
              /\ exit_code' = [exit_code EXCEPT ![p] = 1]
    /\ UNCHANGED <<file, initial, stored, lastWriter, save_arg, procs, current_state, run_state,
                   returned_state, waits, raw_output, outputs_attrs, out, save_status, verified>>

(***************************************************************************)
(* run_agent, lines 87-241                                                 *)
(***************************************************************************)
\* lines 93-96
CheckEnv(p) ==
    /\ pc[p] = "run_agent"
    /\ \E parent_email \in BOOLEAN, channel_id \in BOOLEAN :
         IF ~parent_email \/ ~channel_id
         THEN Raise(p, "RuntimeError", "except")
         ELSE Goto(p, "load") /\ UNCHANGED exc
    /\ UNCHANGED <<file, initial, stored, lastWriter, save_arg, procs, current_state, run_state,
                   returned_state, waits, raw_output, outputs_attrs, out, save_status, verified, log,
                   exit_code>>

\* line 102
LoadState(p) ==
    /\ pc[p] = "load"
    /\ \E read_fault \in BOOLEAN :
         LET r == get_guardian_state(file, read_fault)
         IN  /\ current_state' = [current_state EXCEPT ![p] = r.value]
             /\ log' = [log EXCEPT ![p] = @ \cup {r.printed}]
    /\ Goto(p, "plan")
    /\ UNCHANGED <<file, initial, stored, lastWriter, save_arg, procs, run_state, returned_state, waits,
                   raw_output,
                   outputs_attrs, out, exc, save_status, verified, exit_code>>

\* lines 196-203: portia.plan and portia.run_plan; either may raise
RunPlan(p) ==
    /\ pc[p] = "plan"
    /\ \/ \E s \in PlanRunStates :
            /\ run_state' = [run_state EXCEPT ![p] = s]
            /\ returned_state' = [returned_state EXCEPT ![p] = s]
            /\ Goto(p, "ran")
            /\ UNCHANGED exc
       \/ /\ Raise(p, "PortiaError", "except")
          /\ UNCHANGED <<run_state, returned_state>>
    /\ UNCHANGED <<file, initial, stored, lastWriter, save_arg, procs, current_state, waits,
                   raw_output, outputs_attrs, out, save_status, verified, log, exit_code>>

\* lines 205-208, the branch taken
WaitForReady(p) ==
    /\ pc[p] = "ran"
    /\ run_state[p] = "NEED_CLARIFICATION"
    /\ \E s \in PlanRunStates : run_state' = [run_state EXCEPT ![p] = s]
    /\ waits' = [waits EXCEPT ![p] = @ + 1]
    /\ Goto(p, "check")
    /\ UNCHANGED <<file, initial, stored, lastWriter, save_arg, procs, current_state, returned_state,
                   raw_output,
                   outputs_attrs, out, exc, save_status, verified, log, exit_code>>

\* line 205, the branch not taken
NoWait(p) ==
    /\ pc[p] = "ran"
    /\ run_state[p] # "NEED_CLARIFICATION"
    /\ Goto(p, "check")
    /\ UNCHANGED <<file, initial, stored, lastWriter, save_arg, procs, current_state, run_state,
                   returned_state, waits, raw_output, outputs_attrs, out, exc, save_status, verified, log,
                   exit_code>>

\* CheckComplete with a fault: only a FAILED run raises
CheckComplete_only_failed(p) ==
    /\ pc[p] = "check"
    /\ IF run_state[p] = "FAILED"
       THEN Raise(p, "Exception", "except")
       ELSE Goto(p, "validate") /\ UNCHANGED exc
    /\ UNCHANGED <<file, initial, stored, lastWriter, save_arg, procs, current_state,
                   run_state, returned_state, waits, raw_output, outputs_attrs, out,
                   save_status, verified, log, exit_code>>

\* lines 210-211
CheckComplete(p) ==
    /\ pc[p] = "check"
    /\ IF run_state[p] # "COMPLETE"
       THEN Raise(p, "Exception", "except")
       ELSE Goto(p, "validate") /\ UNCHANGED exc
    /\ UNCHANGED <<file, initial, stored, lastWriter, save_arg, procs, current_state, run_state,
                   returned_state, waits, raw_output, outputs_attrs, out, save_status, verified, log,
                   exit_code>>

\* lines 214-240: the shim on the run's final output
Validate(p) ==
    /\ pc[p] = "validate"
    /\ \E o \in Outputs(procs) :
         LET result == ValidationShim(o[1], o[2])
         IN  /\ raw_output' = [raw_output EXCEPT ![p] = o[1]]
             /\ outputs_attrs' = [outputs_attrs EXCEPT ![p] = o[2]]
             /\ IF result.ok
                THEN /\ out' = [out EXCEPT ![p] = result]
                     /\ Goto(p, "return")
                     /\ UNCHANGED exc
                ELSE /\ Raise(p, "ValidationError", "except")
                     /\ UNCHANGED out
    /\ UNCHANGED <<file, initial, stored, lastWriter, save_arg, procs, current_state, run_state,
                   returned_state, waits, save_status, verified, log, exit_code>>

(***************************************************************************)
(* Entry point, lines 244-285                                              *)
(***************************************************************************)
\* line 241 -> line 247: run_agent returns; its locals are gone
Return(p) ==
    /\ pc[p] = "return"
    /\ raw_output' = [raw_output EXCEPT ![p] = NoRaw]
    /\ outputs_attrs' = [outputs_attrs EXCEPT ![p] = NoAttrs]
    /\ Goto(p, "report")
    /\ UNCHANGED <<file, initial, stored, lastWriter, save_arg, procs, current_state, run_state,
                   returned_state, waits, out, exc, save_status, verified, log, exit_code>>

\* Report with a fault: the state is saved whatever out.last_ts is
Report_always_saves(p) ==
    /\ pc[p] = "report"
    /\ Goto(p, "save_open")
    /\ log' = [log EXCEPT ![p] = @ \cup {"saving"}]
    /\ UNCHANGED <<file, initial, stored, lastWriter, save_arg, procs, current_state,
                   run_state, returned_state, waits, raw_output, outputs_attrs, out, exc,
                   save_status, verified, exit_code>>

\* lines 249-267 and 279-280: the report, then the branch on out.last_ts
Report(p) ==
    /\ pc[p] = "report"
    /\ IF Truthy(out[p].last_ts)
       THEN /\ Goto(p, "save_open")
            /\ log' = [log EXCEPT ![p] = @ \cup {"saving"}]
            /\ UNCHANGED exit_code
       ELSE /\ Goto(p, "done")
            /\ log' = [log EXCEPT ![p] = @ \cup {"no_last_ts"}]
            /\ exit_code' = [exit_code EXCEPT ![p] = 0]
    /\ UNCHANGED <<file, initial, stored, lastWriter, save_arg, procs, current_state, run_state,
                   returned_state, waits, raw_output, outputs_attrs, out, exc, save_status,
                   verified>>

\* SaveOpen with a fault: no try around open, the error reaches the entry point
SaveOpen_propagates(p) ==
    /\ pc[p] = "save_open"
    /\ save_arg' = out[p].last_ts
    /\ \E open_fault \in BOOLEAN :
         IF open_fault
         THEN /\ save_status' = [save_status EXCEPT ![p] = "open_failed"]
              /\ Raise(p, "OSError", "except")
              /\ UNCHANGED <<file, stored>>
         ELSE /\ file' = EmptyFile
              /\ stored' = Absent
              /\ Goto(p, "save_write")
              /\ UNCHANGED <<save_status, exc>>
    /\ UNCHANGED <<initial, lastWriter, procs, current_state, run_state, returned_state,
                   waits, raw_output, outputs_attrs, out, verified, log, exit_code>>

\* save_guardian_state, line 66: open(state_file, 'w') creates or truncates the
\* file; when it raises, line 70 logs the error and the function returns
SaveOpen(p) ==
    /\ pc[p] = "save_open"
    /\ save_arg' = out[p].last_ts
    /\ \E open_fault \in BOOLEAN :
         IF open_fault
         THEN /\ save_status' = [save_status EXCEPT ![p] = "open_failed"]
              /\ log' = [log EXCEPT ![p] = @ \cup {"save_error"}]
              /\ Goto(p, "verify")
              /\ UNCHANGED <<file, stored>>
         ELSE /\ file' = EmptyFile
              /\ stored' = Absent
              /\ Goto(p, "save_write")
              /\ UNCHANGED <<save_status, log>>
    /\ UNCHANGED <<initial, lastWriter, procs, current_state, run_state, returned_state,
                   waits, raw_output, outputs_attrs, out, exc, verified, exit_code>>

\* SaveWrite with a fault: a write never replaces a newer checkpoint by an older one
SaveWrite_keeps_newest(p) ==
    /\ pc[p] = "save_write"
    /\ LET mine == out[p].last_ts
           newest == IF stored # Absent /\ ParseInt(stored.s) > ParseInt(mine.s)
                     THEN stored ELSE mine
       IN  /\ file' = ObjectText(newest)
           /\ stored' = newest
    /\ lastWriter' = p
    /\ save_status' = [save_status EXCEPT ![p] = "ok"]
    /\ log' = [log EXCEPT ![p] = @ \cup {"saved"}]
    /\ Goto(p, "verify")
    /\ UNCHANGED <<initial, save_arg, procs, current_state, run_state, returned_state, waits,
                   raw_output, outputs_attrs, out, exc, verified, exit_code>>

\* save_guardian_state, lines 67-70: json.dump and the close of the file. The
\* write reaches the disk whole ("ok"), not at all ("failed") or in part
\* ("partial"); a failure is logged by line 70 and the function returns.
\* Timestamps have one width, so a whole write replaces the text whole.
SaveWrite(p) ==
    /\ pc[p] = "save_write"
    /\ \E outcome \in {"ok", "failed", "partial"} :
         CASE outcome = "ok" ->
                /\ file' = json_dump(out[p].last_ts)
                /\ stored' = out[p].last_ts
                /\ lastWriter' = p
                /\ save_status' = [save_status EXCEPT ![p] = "ok"]
                /\ log' = [log EXCEPT ![p] = @ \cup {"saved"}]
           [] outcome = "failed" ->
                /\ save_status' = [save_status EXCEPT ![p] = "write_failed"]
                /\ log' = [log EXCEPT ![p] = @ \cup {"save_error"}]
                /\ UNCHANGED <<file, stored, lastWriter>>
           [] outcome = "partial" ->
                /\ file' = Garbage
                /\ stored' = Absent
                /\ save_status' = [save_status EXCEPT ![p] = "write_failed"]
                /\ log' = [log EXCEPT ![p] = @ \cup {"save_error"}]
                /\ UNCHANGED lastWriter
    /\ Goto(p, "verify")
    /\ UNCHANGED <<initial, save_arg, procs, current_state, run_state, returned_state, waits,
                   raw_output, outputs_attrs, out, exc, verified, exit_code>>

\* lines 269-278: what the verification step finds
VerifyOutcome(f, read_fault, last_ts) ==
    LET saved == JsonLoads(f)
        got == DictGet(saved, PNone)
    IN  IF f.form = "missing" \/ read_fault \/ ~saved.ok \/ ~got.ok THEN "error"
        ELSE IF got.value = last_ts THEN "verified"
        ELSE "mismatch"

\* lines 269-278, then the script ends
Verify(p) ==
    /\ pc[p] = "verify"
    /\ \E read_fault \in BOOLEAN :
         verified' = [verified EXCEPT ![p] = VerifyOutcome(file, read_fault, out[p].last_ts)]
    /\ Goto(p, "done")
    /\ exit_code' = [exit_code EXCEPT ![p] = 0]
    /\ UNCHANGED <<file, initial, stored, lastWriter, save_arg, procs, current_state, run_state,
                   returned_state, waits, raw_output, outputs_attrs, out, exc, save_status,
                   log>>

\* lines 282-285: the handler prints the traceback; the script then ends normally
Except(p) ==
    /\ pc[p] = "except"
    /\ log' = [log EXCEPT ![p] = @ \cup {"traceback"}]
    /\ raw_output' = [raw_output EXCEPT ![p] = NoRaw]
    /\ outputs_attrs' = [outputs_attrs EXCEPT ![p] = NoAttrs]
    /\ Goto(p, "done")
    /\ exit_code' = [exit_code EXCEPT ![p] = 0]
    /\ UNCHANGED <<file, initial, stored, lastWriter, save_arg, procs, current_state, run_state,
                   returned_state, waits, out, exc, save_status, verified>>

\* the script is started again
Rerun(p) ==
    /\ pc[p] = "done"
    /\ Goto(p, "import")
    /\ initial' = file
    /\ current_state' = [current_state EXCEPT ![p] = Absent]
    /\ run_state' = [run_state EXCEPT ![p] = "NONE"]
    /\ returned_state' = [returned_state EXCEPT ![p] = "NONE"]
    /\ waits' = [waits EXCEPT ![p] = 0]
    /\ out' = [out EXCEPT ![p] = NoOut]
    /\ exc' = [exc EXCEPT ![p] = "none"]
    /\ save_status' = [save_status EXCEPT ![p] = "none"]
    /\ verified' = [verified EXCEPT ![p] = "none"]
    /\ log' = [log EXCEPT ![p] = {}]
    /\ exit_code' = [exit_code EXCEPT ![p] = -1]
    /\ UNCHANGED <<file, stored, lastWriter, save_arg, procs, raw_output, outputs_attrs>>

\* one execution of the script, step by step
RunScript ==
    \/ \E p \in procs : CheckApiKey(p)
    \/ \E p \in procs : CheckEnv(p)
    \/ \E p \in procs : LoadState(p)
    \/ \E p \in procs : RunPlan(p)
    \/ \E p \in procs : WaitForReady(p)
    \/ \E p \in procs : NoWait(p)
    \/ \E p \in procs : CheckComplete(p)
    \/ \E p \in procs : Validate(p)
    \/ \E p \in procs : Return(p)
    \/ \E p \in procs : Report(p)
    \/ \E p \in procs : SaveOpen(p)
    \/ \E p \in procs : SaveWrite(p)
    \/ \E p \in procs : Verify(p)
    \/ \E p \in procs : Except(p)

\* the script, run again and again by one process
Next == RunScript \/ \E p \in procs : Rerun(p)

\* two processes run the script once each, concurrently
NextRace == RunScript

Spec == Init /\ [][Next]_vars
SpecRace == InitRace /\ [][NextRace]_vars

(***************************************************************************)
(* Properties                                                              *)
(***************************************************************************)
\* positions of run_agent after get_guardian_state has returned and before the
\* process itself writes the file
Loaded(p) == current_state[p] # Absent

\* float(ts) of a timestamp string
TsNum(v) == ParseInt(v.s)

\* C1: get_guardian_state always returns a string: "" when the file is missing,
\* empty, whitespace-only, unparseable, not a JSON object or without last_ts,
\* and the stored last_ts otherwise. (The file is as the execution found it:
\* a lone process writes it only after run_agent has returned.)
C1_LoadReturnsString ==
    \A p \in procs :
        (Loaded(p) /\ pc[p] \in {"plan", "ran", "check", "validate"}) =>
            /\ current_state[p].t = "str"
            /\ (initial.form # "object" \/ initial.last_ts = Absent)
                  => current_state[p] = PStr("")
            /\ current_state[p] \in {PStr(""), initial.last_ts}

\* C2 as claimed: once save_guardian_state(ts) has been called, the next
\* get_guardian_state() returns exactly ts.
C2_RoundTripAlways ==
    \A p \in procs :
        (pc[p] = "plan" /\ save_arg # Absent) => current_state[p] = save_arg

\* C2 as amended: when the open and the write of save_guardian_state(ts)
\* succeeded, and the next get_guardian_state() can read the file, it returns
\* exactly ts, whatever the file held before the save.
C2_RoundTripWhenWritten ==
    \A p \in procs :
        (pc[p] = "plan" /\ stored # Absent /\ "read_error" \notin log[p])
            => current_state[p] = stored

C2_Witness ==
    \E p \in procs :
        /\ pc[p] = "plan"
        /\ stored # Absent
        /\ "found_last_ts" \in log[p]
        /\ current_state[p] = stored

\* C3: for every final output of a COMPLETE run the shim returns a result with
\* the four fields populated and safety_status "completed", and never raises.
C3_ShimAlwaysReturns ==
    \A p \in procs :
        (run_state[p] = "COMPLETE" /\ pc[p] \in {"return", "except", "done"}) =>
            /\ exc[p] = "none"
            /\ out[p].ok
            /\ out[p].scanned_count.t = "int"
            /\ out[p].alerted_count.t = "int"
            /\ out[p].last_ts.t \in {"str", "none"}
            /\ out[p].safety_status = PStr("completed")

\* C4 as claimed: a final output that is not a dict gives scanned_count = 0,
\* alerted_count = 0 and last_ts = null, whatever run.outputs carries.
C4_NonDictGivesZeros ==
    \A p \in procs :
        (pc[p] = "return" /\ ~raw_output[p].isdict) =>
            /\ out[p].scanned_count = PInt(0)
            /\ out[p].alerted_count = PInt(0)
            /\ out[p].last_ts = PNone

\* C4 as amended: a final output that is not a dict gives last_ts = null, and
\* each count is 0 unless run.outputs carries a truthy attribute of that name,
\* in which case the count returned is that attribute's value as an int.
C4_NonDictFallback ==
    \A p \in procs :
        (pc[p] = "return" /\ ~raw_output[p].isdict) =>
            /\ out[p].last_ts = PNone
            /\ \A k \in {"scanned_count", "alerted_count"} :
                 LET a == outputs_attrs[p][k]
                 IN  /\ a \in {Absent, PNone, PInt(0)} => out[p][k] = PInt(0)
                     /\ (a.t = "int" /\ a.n # 0) => out[p][k] = a
                     /\ (a.t = "str" /\ IsNumeric(a.s)) => out[p][k] = PInt(ParseInt(a.s))

C4_Witness ==
    \E p \in procs :
        /\ pc[p] = "return"
        /\ ~raw_output[p].isdict
        /\ outputs_attrs[p].scanned_count = PInt(1)
        /\ outputs_attrs[p].alerted_count = Absent
        /\ out[p].scanned_count = PInt(1)
        /\ out[p].alerted_count = PInt(0)

\* C5: run_agent returns a result only for a COMPLETE run and raises the
\* generic Exception for any other state; wait_for_ready is called exactly
\* when run_plan returned NEED_CLARIFICATION, at most once, and the COMPLETE
\* check reads the state after the wait.
C5_CompleteOnly ==
    \A p \in procs :
        /\ out[p].ok => run_state[p] = "COMPLETE"
        /\ pc[p] \in {"validate", "return", "report", "save_open", "save_write", "verify"}
              => run_state[p] = "COMPLETE"
        /\ (run_state[p] \notin {"NONE", "COMPLETE"} /\ pc[p] \in {"except", "done"})
              => (exc[p] = "Exception" /\ ~out[p].ok)
        /\ waits[p] <= 1
        /\ (returned_state[p] # "NONE" /\ pc[p] # "ran")
              => (waits[p] = 1 <=> returned_state[p] = "NEED_CLARIFICATION")
        /\ waits[p] = 0 => run_state[p] = returned_state[p]

C5_Witness ==
    \E p \in procs :
        /\ pc[p] = "done"
        /\ returned_state[p] = "NEED_CLARIFICATION"
        /\ waits[p] = 1
        /\ run_state[p] = "COMPLETE"
        /\ out[p].ok

\* C6: an execution that ends in an exception prints a stack trace and exits
\* with a non-zero status.
C6_ExceptionExitsNonZero ==
    \A p \in procs :
        (pc[p] = "done" /\ exc[p] # "none") =>
            ("traceback" \in log[p] /\ exit_code[p] # 0)

\* C7: a failure to open or write the state file is logged and not propagated:
\* save_guardian_state returns, the entry point goes on to the verification
\* step, which can always run, and the script ends without an exception.
C7_SaveFailureContained ==
    \A p \in procs :
        save_status[p] \in {"open_failed", "write_failed"} =>
            /\ "save_error" \in log[p]
            /\ exc[p] = "none"
            /\ pc[p] \in {"verify", "done"}
            /\ pc[p] = "verify" => ENABLED Verify(p)
            /\ pc[p] = "done" => (verified[p] # "none" /\ exit_code[p] = 0)

C7_Witness ==
    \E p \in procs :
        /\ save_status[p] = "open_failed"
        /\ pc[p] = "done"
        /\ verified[p] \in {"error", "mismatch"}

\* C8: nothing orders the two processes' writes: when both have ended with
\* their saves written, the file holds the last_ts of whichever wrote last,
\* also when the other process's last_ts is the newer one.
C8_LastWriterWins ==
    ( /\ \A p \in procs : pc[p] = "done" /\ save_status[p] \in {"none", "ok"}
      /\ lastWriter # 0 )
        => file = json_dump(out[lastWriter].last_ts)

\* the lost update: both processes loaded the same checkpoint, both saved, and
\* the file ends with the older of the two timestamps
C8_LostUpdate ==
    /\ Cardinality(procs) = 2
    /\ \A p \in procs : pc[p] = "done" /\ save_status[p] = "ok"
    /\ initial.form = "object"
    /\ \A p \in procs : current_state[p] = initial.last_ts
    /\ \E p \in procs, q \in procs :
         /\ lastWriter = p
         /\ file = json_dump(out[p].last_ts)
         /\ TsNum(out[p].last_ts) < TsNum(out[q].last_ts)

\* C9 as claimed: for a dict output, every one of scanned_count, alerted_count
\* and last_ts that is present comes back unchanged.
C9_PresentKeysKept ==
    \A p \in procs :
        (pc[p] = "return" /\ raw_output[p].isdict) =>
            \A k \in {"scanned_count", "alerted_count", "last_ts"} :
                raw_output[p].d[k] # Absent => out[p][k] = raw_output[p].d[k]

\* C9 as amended: for a dict output, a missing key is filled with its default
\* (0, 0, null), a present value of the field's type (an int for the counts, a
\* string or null for last_ts) comes back unchanged, and a count given as a
\* numeric string comes back as the int it spells.
C9_PresentKeysKeptUpToType ==
    \A p \in procs :
        (pc[p] = "return" /\ raw_output[p].isdict) =>
            LET d == raw_output[p].d
            IN  /\ \A k \in {"scanned_count", "alerted_count"} :
                     /\ d[k] = Absent => out[p][k] = PInt(0)
                     /\ d[k].t = "int" => out[p][k] = d[k]
                     /\ d[k].t = "str" => out[p][k] = PInt(ParseInt(d[k].s))
                /\ d.last_ts = Absent => out[p].last_ts = PNone
                /\ d.last_ts.t \in {"str", "none"} => out[p].last_ts = d.last_ts

C9_Witness ==
    \E p \in procs :
        /\ pc[p] = "return"
        /\ raw_output[p].isdict
        /\ raw_output[p].d.scanned_count = PStr("2")
        /\ raw_output[p].d.alerted_count = Absent
        /\ raw_output[p].d.last_ts = PStr("1")
        /\ out[p].scanned_count = PInt(2)
        /\ out[p].last_ts = PStr("1")

\* run_agent returned a result with a non-empty last_ts
ReturnedTs(p) == out[p].ok /\ Truthy(out[p].last_ts)

\* C10 as claimed: over one execution the file is written exactly when run_agent
\* returned a non-empty last_ts, and then holds that last_ts; otherwise the
\* file is as the execution found it.
C10_WriteBackIffReturned ==
    \A p \in procs :
        pc[p] = "done" =>
            /\ save_status[p] = "ok" <=> ReturnedTs(p)
            /\ ReturnedTs(p) => file = json_dump(out[p].last_ts)
            /\ ~ReturnedTs(p) => file = initial

\* C10 as amended: over one execution a save is attempted exactly when run_agent
\* returned a non-empty last_ts; when its open and write succeed the file then
\* holds that last_ts, when the open fails the file is as the execution found
\* it, when the write fails the file is left empty or garbled; in every other
\* execution, and until the save opens the file, the file is as the execution
\* found it.
C10_WriteBackOnlyAfterReturn ==
    \A p \in procs :
        /\ pc[p] \notin {"save_write", "verify", "done"} => file = initial
        /\ pc[p] \in {"verify", "done"} =>
            /\ save_status[p] # "none" <=> ReturnedTs(p)
            /\ save_status[p] = "ok" => file = json_dump(out[p].last_ts)
            /\ save_status[p] = "open_failed" => file = initial
            /\ save_status[p] = "write_failed" => file \in {EmptyFile, Garbage}
            /\ ~ReturnedTs(p) => file = initial

C10_Witness ==
    \E p \in procs :
        /\ pc[p] = "done"
        /\ save_status[p] = "ok"
        /\ initial = ObjectText(PStr("2"))
        /\ file = ObjectText(PStr("1"))

====
